---- MODULE Spec2Model ----
(***************************************************************************)
(* AsyncConsoleEnhancer (src/enhanced-console.js): console wrappers that   *)
(* enqueue log entries, a batch drain guarded by isProcessing, source-map  *)
(* loads deduplicated through pendingSourceMaps, and enhance()/cleanup().  *)
(*                                                                         *)
(* One action is one synchronous run of the code (a call, a callback, or   *)
(* the code between two awaits).  Promise continuations are separate       *)
(* actions, so application code (Call, Cleanup, Enhance) may run between   *)
(* any two of them when the running task is one the application started.   *)
(* Timer and I/O callbacks are tasks of their own: they start only when no *)
(* continuation of the enhancer is pending, and the application runs       *)
(* again only after the continuations they queue have run.                 *)
(***************************************************************************)
EXTENDS Integers, Sequences, FiniteSets, TLC

\* ---------------------------------------------------------------- bounds
MaxCalls == 3        \* application calls to console wrappers
MaxEnhance == 1      \* enhance() calls
MaxOverlap == 1      \* further enhance() calls made while already installed
MaxCleanups == 2     \* cleanup() calls
MaxLoads == 2        \* source-map loads in flight at once
MaxSched == 2        \* pending deferred processQueue callbacks (saturating)
EmitCap == 2         \* emission counter per call saturates here ("twice or more")
MaxBatchSize == 2    \* options.batchSize is chosen in 1..MaxBatchSize
MaxQueueSize == 2    \* options.maxQueueSize chosen by the caller

\* ------------------------------------------------------------ value sets
Methods == {"log", "warn", "error", "info", "debug"}
CallMethods == {"log"}               \* methods the application calls
Urls == {"a.js", "b.js"}                   \* file URLs found in stack frames
Frames == {"nomatch"} \cup Urls      \* a captured frame: no regex match, or its fileUrl
Captures == {"throw"} \cup Frames    \* new Error().stack.split('\n')[2], or it throws
ErrCaptures == {"nomatch"}           \* the frame captured for the enhancer's own console.error
Native == 0                          \* the console function present before any enhance()
Undef == -1                          \* Map.get of an absent key
Stale == -1                          \* a pendingSourceMaps entry holding a settled promise
Wrappers == 1..(MaxEnhance + MaxOverlap)
LoadIds == 1..MaxLoads
CallIds == 1..MaxCalls
CleanupIds == 1..MaxCleanups

VARIABLES
  hasWindow,          \* the global `window` exists
  hasDeferral,        \* requestIdleCallback is in window, or queueMicrotask exists
  sourceMapEnabled,   \* options.sourceMapEnabled
  useCache,           \* options.useCache (`caches` is in window whenever window exists)
  batchSize,          \* options.batchSize
  consoleFn,          \* console[method]: Native or a wrapper id
  wrapOriginal,       \* wrapper id -> the `original` its closures captured, per method
  originalMethods,    \* this.originalMethods: method -> function, Undef when absent
  enhanceCount,       \* number of enhance() calls so far
  timers,             \* live setInterval handles
  flushInterval,      \* this.flushInterval: the last handle, 0 before enhance()
  logQueue,           \* this.logQueue
  isProcessing,       \* this.isProcessing
  drainOwner,         \* who awaits the running processQueue(): 0, or a cleanup id
  drainRejected,      \* Promise.all of the running processQueue() has rejected
  pendingDrains,      \* scheduled callbacks that will call processQueue()
  tasks,              \* processLogEntry invocations that have not finished
  loads,              \* load id -> the async body of loadSourceMap, where it is suspended
  pendingSourceMaps,  \* this.pendingSourceMaps: url -> load id, 0 absent, Stale
  sourceMapCache,     \* this.sourceMapCache: url -> a consumer is stored
  cleanups,           \* cleanup id -> where that cleanup() invocation is
  calls,              \* application calls made so far
  emits,              \* call id -> invocations of the native method for it
  snapshot,           \* cleanup id -> call ids queued when it was called
  cleanupAfter,       \* cleanup id -> every earlier cleanup() had resolved when it was called
  appTurn,            \* the running task is one in which application code may run
  note,               \* the path the last step took, for the cases claims are about
  lastEmit            \* the last native console invocation of the last step

vars == << hasWindow, hasDeferral, sourceMapEnabled, useCache, consoleFn,
           wrapOriginal, originalMethods, enhanceCount, timers, flushInterval,
           logQueue, isProcessing, drainOwner, drainRejected, pendingDrains,
           tasks, loads, pendingSourceMaps, sourceMapCache, cleanups, calls,
           emits, snapshot, cleanupAfter, note, lastEmit, batchSize, appTurn >>

envVars == << hasWindow, hasDeferral, sourceMapEnabled, useCache, batchSize >>

NoEmit == [id |-> 0, kind |-> "none"]

Min(a, b) == IF a < b THEN a ELSE b

NoLoad == [url |-> "", stage |-> "free"]

Init ==
  /\ hasWindow \in BOOLEAN
  /\ hasDeferral \in BOOLEAN
  /\ (~hasWindow => hasDeferral)      \* without window the lookup throws either way
  /\ sourceMapEnabled \in BOOLEAN
  /\ useCache \in BOOLEAN
  /\ (~sourceMapEnabled => ~useCache) \* useCache is read only inside loadSourceMap
  /\ batchSize \in 1..MaxBatchSize
  /\ consoleFn = [m \in Methods |-> Native]
  /\ wrapOriginal = [k \in Wrappers |-> [m \in Methods |-> Undef]]
  /\ originalMethods = [m \in Methods |-> Undef]
  /\ enhanceCount = 0
  /\ timers = {}
  /\ flushInterval = 0
  /\ logQueue = << >>
  /\ isProcessing = FALSE
  /\ drainOwner = 0
  /\ drainRejected = FALSE
  /\ pendingDrains = 0
  /\ tasks = << >>
  /\ loads = [l \in LoadIds |-> NoLoad]
  /\ pendingSourceMaps = [u \in Urls |-> 0]
  /\ sourceMapCache = [u \in Urls |-> FALSE]
  /\ cleanups = [c \in CleanupIds |-> "none"]
  /\ calls = 0
  /\ emits = [i \in CallIds |-> 0]
  /\ snapshot = [c \in CleanupIds |-> {}]
  /\ cleanupAfter = [c \in CleanupIds |-> FALSE]
  /\ appTurn = TRUE
  /\ note = "step"
  /\ lastEmit = NoEmit

\* The mutable heap the synchronous helpers thread through.
Heap ==
  [q |-> logQueue, pd |-> pendingDrains, em |-> emits, tk |-> tasks,
   ld |-> loads, pm |-> pendingSourceMaps, sc |-> sourceMapCache,
   proc |-> isProcessing, own |-> drainOwner, rej |-> drainRejected,
   cl |-> cleanups, ok |-> TRUE, nt |-> "step", le |-> NoEmit]

Commit(S) ==
  /\ S.ok
  /\ logQueue' = S.q
  /\ pendingDrains' = S.pd
  /\ emits' = S.em
  /\ tasks' = S.tk
  /\ loads' = S.ld
  /\ pendingSourceMaps' = S.pm
  /\ sourceMapCache' = S.sc
  /\ isProcessing' = S.proc
  /\ drainOwner' = S.own
  /\ drainRejected' = S.rej
  /\ cleanups' = S.cl
  /\ note' = S.nt
  /\ lastEmit' = S.le

\* ------------------------------------------------ console wrappers (enhance)

\* One more invocation of the native console method for call `id`
\* (id 0: the enhancer's own console.error diagnostics, not counted).
Emit(em, id) ==
  IF id = 0 THEN em ELSE [em EXCEPT ![id] = Min(@ + 1, EmitCap)]

\* `'requestIdleCallback' in window` evaluates, and that or queueMicrotask exists.
CanSchedule == hasWindow /\ hasDeferral

\* requestIdleCallback(...) or queueMicrotask(...): one more deferred processQueue().
ScheduleQueueProcessing(S) == [S EXCEPT !.pd = Min(@ + 1, MaxSched)]

\* Mutation of QueueFull: the comparison is off by one (> instead of >=).
QueueFullOffByOne(q) == Len(q) > MaxQueueSize

\* this.logQueue.length >= this.options.maxQueueSize
QueueFull(q) == Len(q) >= MaxQueueSize

\* this.logQueue.push({ method, args, stack })
Push(q, id, m, stack) == Append(q, [id |-> id, method |-> m, stack |-> stack])

\* Records which path the outermost wrapper of this step took.
Mark(S, what) == IF S.nt = "step" THEN [S EXCEPT !.nt = what] ELSE S

RECURSIVE CallFn(_, _, _, _, _, _)
RECURSIVE Wrapper(_, _, _, _, _, _)

\* Mutation of Wrapper: the queue-full branch lacks its `return`, so the call
\* goes on to push and schedule after the direct emission.
WrapperNoReturn(S, k, m, id, cap, kind) ==
  LET original == wrapOriginal[k][m]
      S0 == IF QueueFull(S.q)
              THEN CallFn(Mark(S, "overflow"), original, m, id, cap, "marker")
              ELSE S
      S1 == [S0 EXCEPT !.q = Push(@, id, m, cap)]
  IN IF cap = "throw"
       THEN CallFn(Mark(S, "capfail"), original, m, id, cap, kind)
     ELSE IF CanSchedule
       THEN ScheduleQueueProcessing(S1)
       ELSE CallFn(Mark(S1, "schedfail"), original, m, id, cap, kind)

\* Mutation of Wrapper: scheduleQueueProcessing() is called outside the try, so
\* its exception reaches the caller and nothing is emitted.
WrapperNoCatch(S, k, m, id, cap, kind) ==
  LET original == wrapOriginal[k][m] IN
  IF cap = "throw"
    THEN CallFn(Mark(S, "capfail"), original, m, id, cap, kind)
  ELSE IF QueueFull(S.q)
    THEN CallFn(Mark(S, "overflow"), original, m, id, cap, "marker")
  ELSE LET S1 == [S EXCEPT !.q = Push(@, id, m, cap)] IN
       IF CanSchedule
         THEN ScheduleQueueProcessing(S1)
         ELSE Mark(S1, "threw")

\* The replacement console[method] installed by the k-th enhance().
\* cap: what new Error().stack.split('\n')[2] gives; kind: the arguments passed.
Wrapper(S, k, m, id, cap, kind) ==
  LET original == wrapOriginal[k][m] IN
  IF cap = "throw"
    THEN CallFn(Mark(S, "capfail"), original, m, id, cap, kind)
  ELSE IF QueueFull(S.q)
    THEN CallFn(Mark(S, "overflow"), original, m, id, cap, "marker")
  ELSE LET S1 == [S EXCEPT !.q = Push(@, id, m, cap)] IN
       IF CanSchedule
         THEN ScheduleQueueProcessing(S1)
         ELSE CallFn(Mark(S1, "schedfail"), original, m, id, cap, kind)

\* Calling a console function value: the native method, or a wrapper.
CallFn(S, fn, m, id, cap, kind) ==
  IF fn = Native THEN [S EXCEPT !.em = Emit(@, id), !.le = [id |-> id, kind |-> kind]]
  ELSE Wrapper(S, fn, m, id, cap, kind)

\* console.error(...) from inside the enhancer: whatever console.error is now.
ConsoleError(S, cap) ==
  [CallFn(S, consoleFn["error"], "error", 0, cap, "plain") EXCEPT !.nt = S.nt, !.le = S.le]

\* ------------------------------------------------------------ loadSourceMap

FreeLoads(S) == {l \in LoadIds : S.ld[l].stage = "free"}

\* Mutation of LoadSourceMap: the sourceMapCache.has(fileUrl) test is missing.
LoadSourceMapNoCacheCheck(S, u, errCap) ==
  IF S.pm[u] = Stale
    THEN [S |-> S, st |-> "ready", res |-> "null", load |-> 0]
  ELSE IF S.pm[u] # 0
    THEN [S |-> S, st |-> "wait", res |-> "null", load |-> S.pm[u]]
  ELSE IF useCache /\ ~hasWindow
    THEN [S |-> [ConsoleError(S, errCap) EXCEPT !.pm[u] = Stale],
          st |-> "ready", res |-> "null", load |-> 0]
  ELSE IF FreeLoads(S) = {}
    THEN [S |-> [S EXCEPT !.ok = FALSE], st |-> "ready", res |-> "null", load |-> 0]
  ELSE LET l == CHOOSE x \in FreeLoads(S) : \A y \in FreeLoads(S) : x <= y IN
       [S |-> [S EXCEPT !.ld[l] = [url |-> u,
                                   stage |-> IF useCache THEN "cacheRead" ELSE "fetch"],
                        !.pm[u] = l],
        st |-> "wait", res |-> "null", load |-> l]

\* The synchronous part of loadSourceMap(fileUrl): what the caller awaits.
\* Returns the heap and the awaited promise: settled (st = "ready") with res,
\* or the in-flight load `load`.
LoadSourceMap(S, u, errCap) ==
  IF S.sc[u]
    THEN [S |-> S, st |-> "ready", res |-> "cached", load |-> 0]
  ELSE IF S.pm[u] = Stale
    THEN [S |-> S, st |-> "ready", res |-> "null", load |-> 0]
  ELSE IF S.pm[u] # 0
    THEN [S |-> S, st |-> "wait", res |-> "null", load |-> S.pm[u]]
  ELSE IF useCache /\ ~hasWindow
    \* `'caches' in window` throws before the first await: catch, finally, and
    \* only then pendingSourceMaps.set(fileUrl, loadPromise)
    THEN [S |-> [ConsoleError(S, errCap) EXCEPT !.pm[u] = Stale],
          st |-> "ready", res |-> "null", load |-> 0]
  ELSE IF FreeLoads(S) = {}
    THEN [S |-> [S EXCEPT !.ok = FALSE], st |-> "ready", res |-> "null", load |-> 0]
  ELSE LET l == CHOOSE x \in FreeLoads(S) : \A y \in FreeLoads(S) : x <= y IN
       [S |-> [S EXCEPT !.ld[l] = [url |-> u,
                                   stage |-> IF useCache THEN "cacheRead" ELSE "fetch"],
                        !.pm[u] = l],
        st |-> "wait", res |-> "null", load |-> l]

\* The synchronous part of processLogEntry(entry): getOriginalLocation(stack)
\* up to its first await.  The invocation is recorded as a task.
ProcessLogEntry(S, e, errCap) ==
  LET r == IF ~sourceMapEnabled \/ e.stack = "nomatch"
             \* resolved at once: the continuation is queued before this call returns
             THEN [S |-> S, st |-> "now", res |-> "frame", load |-> 0]
             ELSE LoadSourceMap(S, e.stack, errCap)
  IN [r.S EXCEPT !.tk = Append(@, [id |-> e.id, method |-> e.method,
                                   st |-> r.st, res |-> r.res, load |-> r.load,
                                   cur |-> TRUE])]

RECURSIVE StartBatch(_, _, _)
\* batch.map(entry => this.processLogEntry(entry))
StartBatch(S, batch, errCap) ==
  IF batch = << >> THEN S
  ELSE StartBatch(ProcessLogEntry(S, Head(batch), errCap), Tail(batch), errCap)

\* ------------------------------------------------------------- processQueue

\* Mutation of DrainGuard: the isProcessing test is missing.
DrainGuardNoFlag(S) == Len(S.q) = 0

\* if (this.isProcessing || this.logQueue.length === 0) return;
DrainGuard(S) == S.proc \/ Len(S.q) = 0

\* Mutation of SpliceCount: splice(0, batchSize + 1).
SpliceCountOffByOne(q) == Min(batchSize + 1, Len(q))

\* this.logQueue.splice(0, this.options.batchSize): how many entries it removes
SpliceCount(q) == Min(batchSize, Len(q))

\* processQueue() up to `await Promise.all(...)`, called by `owner`.
ProcessQueue(S, owner, errCap) ==
  IF DrainGuard(S)
    THEN [S EXCEPT !.nt = IF S.proc THEN "busy" ELSE S.nt]
    ELSE LET n == SpliceCount(S.q) IN
         StartBatch([S EXCEPT !.proc = TRUE, !.own = owner, !.rej = FALSE,
                              !.q = SubSeq(@, n + 1, Len(@)),
                              !.nt = IF n < Len(S.q) THEN "partial" ELSE "step"],
                    SubSeq(S.q, 1, n), errCap)

\* ------------------------------------------------------------------ actions

\* Entries whose continuation was queued when their batch started.
NowPending == \E i \in DOMAIN tasks : tasks[i].st = "now"

\* Promise.all has settled: every entry of the batch finished, or one rejected.
BatchSettled == drainRejected \/ \A i \in DOMAIN tasks : ~tasks[i].cur

\* Some continuation of the enhancer is queued as a microtask.
MicroPending ==
  \/ \E i \in DOMAIN tasks : tasks[i].st \in {"now", "ready"}
  \/ \E c \in CleanupIds : cleanups[c] \in {"resume", "resumeLate"}
  \/ isProcessing /\ BatchSettled

\* Application code can run now: in a task of its own, or inside the running one.
AppMayRun == appTurn \/ ~MicroPending

\* A timer or I/O callback starts a task in which no application code runs.
LibraryTask == appTurn' = ~MicroPending'

\* A continuation runs inside the task that queued it.
SameTask == appTurn' = (appTurn \/ ~MicroPending')

\* this.originalMethods.set(method, original) for every tracked method
SaveOriginals(om, con) == [m \in Methods |-> con[m]]

\* enhance(): save and replace every tracked method, then setupInterval().
Install ==
  LET k == enhanceCount + 1 IN
  /\ AppMayRun
  /\ appTurn' = TRUE
  /\ wrapOriginal' = [wrapOriginal EXCEPT ![k] = consoleFn]
  /\ originalMethods' = SaveOriginals(originalMethods, consoleFn)
  /\ consoleFn' = [m \in Methods |-> k]
  /\ timers' = timers \cup {k}
  /\ flushInterval' = k
  /\ enhanceCount' = k
  /\ note' = "step"
  /\ lastEmit' = NoEmit
  /\ UNCHANGED << envVars, logQueue, isProcessing, drainOwner, drainRejected,
                  pendingDrains, tasks, loads, pendingSourceMaps, sourceMapCache,
                  cleanups, calls, emits, snapshot, cleanupAfter >>

\* enhance()
Enhance ==
  /\ enhanceCount < MaxEnhance
  /\ Install

\* enhance() called again on the same instance
EnhanceAgain ==
  /\ enhanceCount >= MaxEnhance
  /\ enhanceCount < MaxEnhance + MaxOverlap
  /\ Install

\* The application calls console[m](...args) while a wrapper is installed.
Call(m, cap) ==
  /\ AppMayRun
  /\ calls < MaxCalls
  /\ consoleFn[m] # Native
  /\ calls' = calls + 1
  /\ Commit(CallFn(Heap, consoleFn[m], m, calls + 1, cap, "plain"))
  /\ appTurn' = TRUE
  /\ UNCHANGED << envVars, consoleFn, wrapOriginal, originalMethods, enhanceCount,
                  timers, flushInterval, snapshot, cleanupAfter >>

\* The setInterval callback of setupInterval().
TimerTick(t, errCap) ==
  /\ ~MicroPending
  /\ t \in timers
  /\ Len(logQueue) > 0
  /\ Commit(ProcessQueue(Heap, 0, errCap))
  /\ LibraryTask
  /\ UNCHANGED << envVars, consoleFn, wrapOriginal, originalMethods, enhanceCount,
                  timers, flushInterval, calls, snapshot, cleanupAfter >>

\* A callback of scheduleQueueProcessing() runs: () => this.processQueue().
RunScheduled(errCap) ==
  /\ pendingDrains > 0
  /\ Commit(ProcessQueue([Heap EXCEPT !.pd = @ - 1], 0, errCap))
  /\ SameTask
  /\ UNCHANGED << envVars, consoleFn, wrapOriginal, originalMethods, enhanceCount,
                  timers, flushInterval, calls, snapshot, cleanupAfter >>

\* A load's promise settles with `res`: finally { pendingSourceMaps.delete(fileUrl) },
\* and every processLogEntry awaiting it may continue.
LoadDone(S, l, res) ==
  [S EXCEPT !.pm[S.ld[l].url] = 0,
            !.ld[l] = NoLoad,
            !.tk = [i \in DOMAIN S.tk |->
                      IF S.tk[i].st = "wait" /\ S.tk[i].load = l
                        THEN [S.tk[i] EXCEPT !.st = "ready", !.res = res, !.load = 0]
                        ELSE S.tk[i]]]

\* catch (err) { console.error('Error loading source map:', err); return null; }
LoadFail(S, l, errCap) == LoadDone(ConsoleError(S, errCap), l, "null")

\* this.sourceMapCache.set(fileUrl, consumer)
CacheSet(S, u) == [S EXCEPT !.sc[u] = TRUE]

\* The async body of loadSourceMap resumes after an await.
\* cacheRead: caches.open, cache.match, response.json, new SourceMapConsumer
\* fetch:     fetch, response.ok, response.json, new SourceMapConsumer
\* cacheWrite: caches.open, cache.put
LoadStep(l, out, errCap) ==
  /\ ~MicroPending
  /\ loads[l].stage # "free"
  /\ LET u == loads[l].url
         st == loads[l].stage
     IN \/ /\ st = "cacheRead" /\ out = "hit"
           /\ Commit(LoadDone(CacheSet(Heap, u), l, "consumer"))
        \/ /\ st = "cacheRead" /\ out = "miss"
           /\ Commit([Heap EXCEPT !.ld[l].stage = "fetch"])
        \/ /\ st = "fetch" /\ out = "ok"
           /\ Commit(IF useCache
                       THEN [CacheSet(Heap, u) EXCEPT !.ld[l].stage = "cacheWrite"]
                       ELSE LoadDone(CacheSet(Heap, u), l, "consumer"))
        \/ /\ st = "cacheWrite" /\ out = "ok"
           /\ Commit(LoadDone(Heap, l, "consumer"))
        \/ /\ out = "error"
           /\ Commit(LoadFail(Heap, l, errCap))
  /\ LibraryTask
  /\ UNCHANGED << envVars, consoleFn, wrapOriginal, originalMethods, enhanceCount,
                  timers, flushInterval, calls, snapshot, cleanupAfter >>

RemoveAt(s, i) == SubSeq(s, 1, i - 1) \o SubSeq(s, i + 1, Len(s))

\* this.originalMethods.get(method)
SavedOriginal(m) == originalMethods[m]

\* What processLogEntry passes to the original: the arguments plus the rewritten
\* location, plus the captured frame unchanged, or (from its catch) the arguments alone.
LocationKind(lookup) ==
  IF lookup = "throw" THEN "plain" ELSE IF lookup = "mapped" THEN "mapped" ELSE "frame"

\* processLogEntry resumes after `await this.getOriginalLocation(stack)`.
\* lookup: consumer.originalPositionFor gives a source, gives none, or throws.
\* With no saved original both the try and the catch throw: the promise rejects,
\* Promise.all rejects and stops waiting for the rest of the batch.
EntryStep(i, lookup, cap) ==
  /\ i \in DOMAIN tasks
  /\ tasks[i].st \in {"now", "ready"}
  /\ (tasks[i].res \notin {"consumer", "cached"} => lookup = "unmapped")
  /\ LET t == tasks[i]
         f == SavedOriginal(t.method)
         rest == RemoveAt(tasks, i)
     IN IF f = Undef
          THEN Commit([Heap EXCEPT
                 !.tk = IF t.cur THEN [j \in DOMAIN rest |-> [rest[j] EXCEPT !.cur = FALSE]]
                                 ELSE rest,
                 !.rej = IF t.cur THEN TRUE ELSE @,
                 !.nt = "step"])
          ELSE Commit(CallFn([Heap EXCEPT !.tk = rest, !.nt = "step"], f, t.method, t.id, cap,
                             LocationKind(lookup)))
  /\ SameTask
  /\ UNCHANGED << envVars, consoleFn, wrapOriginal, originalMethods, enhanceCount,
                  timers, flushInterval, calls, snapshot, cleanupAfter >>

\* processQueue() resumes after `await Promise.all(...)`: catch, finally, and the
\* trailing scheduleQueueProcessing(), which throws where nothing can defer.
DrainFinish(errCap) ==
  /\ isProcessing
  /\ BatchSettled
  /\ ~NowPending
  /\ LET S0 == IF drainRejected THEN ConsoleError(Heap, errCap) ELSE Heap
         S1 == [S0 EXCEPT !.proc = FALSE, !.rej = FALSE, !.own = 0]
         more == Len(S1.q) > 0
         thrown == more /\ ~CanSchedule
         S2 == IF more /\ CanSchedule THEN ScheduleQueueProcessing(S1) ELSE S1
         c == drainOwner
     IN Commit([S2 EXCEPT !.cl = IF c = 0 THEN @
                                  ELSE [@ EXCEPT ![c] = IF thrown THEN "rejected" ELSE "resume"],
                          !.nt = "step"])
  /\ SameTask
  /\ UNCHANGED << envVars, consoleFn, wrapOriginal, originalMethods, enhanceCount,
                  timers, flushInterval, calls, snapshot, cleanupAfter >>

\* for (const [method, original] of this.originalMethods) console[method] = original
Restore(con, om) == [m \in Methods |-> IF om[m] = Undef THEN con[m] ELSE om[m]]

\* cleanup() after its await: destroy and clear the caches, restore, clear the registry.
Finalize(S, c) ==
  /\ Commit([S EXCEPT !.sc = [u \in Urls |-> FALSE],
                      !.pm = [u \in Urls |-> 0],
                      !.cl[c] = "resolved"])
  /\ consoleFn' = Restore(consoleFn, originalMethods)
  /\ originalMethods' = [m \in Methods |-> Undef]

\* cleanup() up to its await (all of it when the queue is empty).
Cleanup(c, errCap) ==
  /\ AppMayRun
  /\ appTurn' = TRUE
  /\ enhanceCount > 0      \* through the handle enhance() returned
  /\ cleanups[c] = "none"
  /\ \A d \in CleanupIds : d < c => cleanups[d] # "none"
  /\ timers' = timers \ {flushInterval}
  /\ snapshot' = [snapshot EXCEPT ![c] = {logQueue[i].id : i \in DOMAIN logQueue} \ {0}]
  /\ cleanupAfter' = [cleanupAfter EXCEPT
                        ![c] = \A d \in CleanupIds : d < c => cleanups[d] = "resolved"]
  /\ IF Len(logQueue) > 0
       THEN /\ Commit([ProcessQueue(Heap, c, errCap) EXCEPT
                         !.cl[c] = IF ~DrainGuard(Heap) THEN "awaitDrain"
                                   ELSE IF NowPending THEN "resumeLate" ELSE "resume"])
            /\ UNCHANGED << consoleFn, originalMethods >>
       ELSE Finalize(Heap, c)
  /\ UNCHANGED << envVars, wrapOriginal, enhanceCount, flushInterval, calls >>

\* cleanup() resumes after `await this.processQueue()`.
CleanupResume(c) ==
  /\ \/ cleanups[c] = "resume"
     \/ cleanups[c] = "resumeLate" /\ ~NowPending
  /\ Finalize(Heap, c)
  /\ SameTask
  /\ UNCHANGED << envVars, wrapOriginal, enhanceCount, timers, flushInterval, calls,
                  snapshot, cleanupAfter >>

Next ==
  \/ Enhance
  \/ \E m \in CallMethods, cap \in Captures : Call(m, cap)
  \/ \E t \in Wrappers, errCap \in ErrCaptures : TimerTick(t, errCap)
  \/ \E errCap \in ErrCaptures : RunScheduled(errCap)
  \/ \E l \in LoadIds, out \in {"hit", "miss", "ok", "error"}, errCap \in ErrCaptures :
       LoadStep(l, out, errCap)
  \/ \E i \in DOMAIN tasks, lookup \in {"mapped", "unmapped", "throw"},
        cap \in Captures : EntryStep(i, lookup, cap)
  \/ \E errCap \in ErrCaptures : DrainFinish(errCap)
  \/ \E c \in CleanupIds, errCap \in ErrCaptures : Cleanup(c, errCap)
  \/ \E c \in CleanupIds : CleanupResume(c)

Spec == Init /\ [][Next]_vars

\* Overlapping installs, with options.sourceMapEnabled = false (no loads happen).
InitOverlap == Init /\ ~sourceMapEnabled /\ hasWindow /\ batchSize = 1

NextOverlap ==
  \/ Enhance
  \/ EnhanceAgain
  \/ \E m \in CallMethods, cap \in Captures : Call(m, cap)
  \/ \E t \in Wrappers, errCap \in ErrCaptures : TimerTick(t, errCap)
  \/ \E errCap \in ErrCaptures : RunScheduled(errCap)
  \/ \E i \in DOMAIN tasks, lookup \in {"unmapped"}, cap \in Captures :
        EntryStep(i, lookup, cap)
  \/ \E errCap \in ErrCaptures : DrainFinish(errCap)
  \/ \E c \in CleanupIds, errCap \in ErrCaptures : Cleanup(c, errCap)
  \/ \E c \in CleanupIds : CleanupResume(c)

SpecOverlap == InitOverlap /\ [][NextOverlap]_vars

\* ===================================================================== claims

QueueIds == {logQueue[i].id : i \in DOMAIN logQueue}

IsPrefix(a, b) == Len(a) <= Len(b) /\ SubSeq(b, 1, Len(a)) = a

InFlight(u) == {l \in LoadIds : loads[l].stage # "free" /\ loads[l].url = u}

AllNative == \A m \in Methods : consoleFn[m] = Native

RegistryEmpty == \A m \in Methods : originalMethods[m] = Undef

\* C1: every call to an installed wrapper results in exactly one invocation of
\* the native method: none is lost and none is emitted twice.  Stated here is
\* the safety half: no call is emitted twice.
C1_NoCallEmittedTwice == \A id \in CallIds : emits[id] <= 1

\* C2: when the promise of cleanup() resolves, every entry that was queued when
\* cleanup() was called has been emitted.
C2_CleanupFlushesPending ==
  \A c \in CleanupIds :
    cleanups[c] = "resolved" => \A id \in snapshot[c] : emits[id] >= 1

\* C3: after one enhance() and a completed cleanup() every console method is the
\* pre-install function and the registry is empty, and a second cleanup() called
\* after that does not throw.
C3_RestoredAndSecondCleanupSafe ==
  enhanceCount = 1 =>
    /\ \A c \in CleanupIds : cleanups[c] = "resolved" => AllNative /\ RegistryEmpty
    /\ (cleanupAfter[2] => cleanups[2] # "rejected")

\* C4: the length of the log queue never exceeds maxQueueSize.
C4_QueueBounded == Len(logQueue) <= MaxQueueSize

C4_Witness == Len(logQueue) = MaxQueueSize /\ note = "overflow"

\* C5 as claimed: a wrapper call made while the queue is full invokes the saved
\* original with the queue-full marker, stores no entry and schedules no drain.
C5_OverflowAlwaysMarked ==
  [][calls' = calls + 1 /\ QueueFull(logQueue) =>
       /\ lastEmit' = [id |-> calls', kind |-> "marker"]
       /\ emits'[calls'] = 1
       /\ logQueue' = logQueue
       /\ pendingDrains' = pendingDrains]_vars

\* C5 amended: a wrapper call made while the queue is full invokes the saved
\* original at once and exactly once, with the queue-full marker when the stack
\* capture succeeded and with the unmodified arguments when the capture threw;
\* it stores no entry and schedules no drain.
C5_OverflowDirect ==
  [][calls' = calls + 1 /\ QueueFull(logQueue) =>
       /\ lastEmit' = [id |-> calls',
                       kind |-> IF note' = "capfail" THEN "plain" ELSE "marker"]
       /\ note' \in {"capfail", "overflow"}
       /\ emits'[calls'] = 1
       /\ logQueue' = logQueue
       /\ pendingDrains' = pendingDrains]_vars

C5_Witness == note = "overflow" /\ lastEmit = [id |-> calls, kind |-> "marker"]

\* C6: for one file URL at most one load is in flight at any time.
C6_OneLoadInFlightPerUrl == \A u \in Urls : Cardinality(InFlight(u)) <= 1

\* C7: when a batch is removed from the queue, every entry removed before it has
\* been emitted (every call made so far is still queued or has been emitted).
C7_BatchesInOrder ==
  [][~isProcessing /\ isProcessing' =>
       \A id \in 1..calls : id \in QueueIds \/ emits[id] >= 1]_vars

\* C8: a processQueue() call made while isProcessing is true removes nothing from
\* the queue and starts processing no entry, and only one batch is awaited.
C8_BusyDrainIsNoOp ==
  /\ [](\A i \in DOMAIN tasks : tasks[i].cur => isProcessing)
  /\ [](Cardinality({i \in DOMAIN tasks : tasks[i].cur}) <= batchSize)
  /\ [][isProcessing => IsPrefix(logQueue, logQueue') /\ Len(tasks') <= Len(tasks)]_vars

C8_Witness == note = "busy" /\ isProcessing /\ Len(logQueue) > 0

\* C9: the registry only ever holds the functions that were on the console before
\* the first enhance(), never a wrapper.
C9_RegistryNeverHoldsWrapper ==
  \A m \in Methods : originalMethods[m] \in {Undef, Native}

\* C10: pendingSourceMaps has an entry for a URL only while a load of that URL
\* is outstanding.
C10_PendingOnlyWhileOutstanding ==
  \A u \in Urls : pendingSourceMaps[u] # 0 => pendingSourceMaps[u] \in InFlight(u)

\* Some cleanup() call has resolved.
CleanupResolved == \E c \in CleanupIds : cleanups[c] = "resolved"

\* C11: once cleanup() has resolved the periodic timer is stopped, no callback
\* that will run processQueue() is pending or created, and no drain is started
\* (other than by a later cleanup() call itself).
C11_NoDrainAfterCleanup ==
  [][CleanupResolved' =>
       /\ timers' = {}
       /\ pendingDrains' = 0
       /\ (~isProcessing /\ isProcessing' => drainOwner' # 0)]_vars

\* The invocations in progress, whether or not Promise.all still waits for them.
Entries(tk) == [i \in DOMAIN tk |-> [tk[i] EXCEPT !.cur = TRUE]]

\* This step is the continuation of processLogEntry invocation i.
Resumes(i) == i \in DOMAIN tasks /\ Entries(tasks') = Entries(RemoveAt(tasks, i))

\* C12: an entry whose source-map resolution failed (its load gave null) is
\* emitted with its unrewritten frame, nothing is thrown, and the other entries
\* of the batch remain in progress as they were.
C12_ResolutionFailureIsolated ==
  [][\A i \in DOMAIN tasks :
       tasks[i].st = "ready" /\ tasks[i].res = "null" /\ Resumes(i) =>
         /\ lastEmit' = [id |-> tasks[i].id, kind |-> "frame"]
         /\ tasks' = RemoveAt(tasks, i)
         /\ ~drainRejected']_vars

\* The wrapper the application calls saved the native method as its original.
SavedNative(m) == consoleFn[m] # Native /\ wrapOriginal[consoleFn[m]][m] = Native

\* C13: a call to an installed wrapper is one synchronous step that never throws
\* into the application; when stack capture or scheduling fails inside it, the
\* saved original is invoked with the caller's unmodified arguments.
C13_WrapperNeverThrows ==
  [][calls' = calls + 1 =>
       /\ note' # "threw"
       /\ (note' \in {"capfail", "schedfail"} /\ (\A m \in CallMethods : SavedNative(m)) =>
             lastEmit' = [id |-> calls', kind |-> "plain"] /\ emits'[calls'] >= 1)]_vars

C13_Witness == note = "schedfail" /\ lastEmit = [id |-> calls, kind |-> "plain"]

\* No loadSourceMap call has left a trace: no load, no in-flight entry, no consumer.
NoSourceMapIO ==
  /\ \A l \in LoadIds : loads[l] = NoLoad
  /\ \A u \in Urls : pendingSourceMaps[u] = 0 /\ ~sourceMapCache[u]

\* C14: with sourceMapEnabled = false every processed entry is emitted with its
\* captured frame unchanged as the location, and no source-map load is performed.
C14_DisabledMeansFrameOnly ==
  [][~sourceMapEnabled =>
       /\ NoSourceMapIO'
       /\ \A i \in DOMAIN tasks :
            Resumes(i) => lastEmit' = [id |-> tasks[i].id, kind |-> "frame"]]_vars

\* C15: whenever the queue is non-empty and no drain is in progress, at least one
\* callback that will call processQueue() is pending.
C15_NoLostWakeup == Len(logQueue) > 0 /\ ~isProcessing => pendingDrains > 0

\* C16: a drain that starts on a queue of length L hands the oldest
\* min(batchSize, L) entries, in enqueue order, to processLogEntry and leaves the
\* others at the front of the queue in their order; no step removes anything
\* but a front segment of the queue.
C16_DrainTakesOldest ==
  [][/\ \E k \in 0..Len(logQueue) :
          IsPrefix(SubSeq(logQueue, k + 1, Len(logQueue)), logQueue')
     /\ (~isProcessing /\ isProcessing' =>
           LET n == Min(batchSize, Len(logQueue)) IN
           /\ IsPrefix(SubSeq(logQueue, n + 1, Len(logQueue)), logQueue')
           /\ Len(logQueue') >= Len(logQueue) - n
           /\ Len(tasks') = Len(tasks) + n
           /\ \A j \in 1..n : tasks'[Len(tasks) + j].id = logQueue[j].id
           /\ \A j \in 1..(Len(logQueue') - (Len(logQueue) - n)) :
                 logQueue'[Len(logQueue) - n + j].id = 0)]_vars

C16_Witness == note = "partial" /\ isProcessing /\ Len(logQueue) > 0

\* C17: when enhancing an entry fails (its continuation does not end in an
\* emission with a location), the entry is emitted with its original arguments
\* alone, once in all, and the other entries of the batch remain in progress as
\* they were.
C17_FailureFallsBackOnce ==
  [][\A i \in DOMAIN tasks :
       Resumes(i) /\ lastEmit'.kind \notin {"frame", "mapped"} =>
         /\ lastEmit' = [id |-> tasks[i].id, kind |-> "plain"]
         /\ (tasks[i].id > 0 => emits'[tasks[i].id] = 1)
         /\ tasks' = RemoveAt(tasks, i)
         /\ ~drainRejected']_vars

\* C18: once a load of a URL has succeeded and until a cleanup() clears the
\* cache, the consumer stays cached, every loadSourceMap call for the URL gets
\* the cached consumer at once, no load of the URL is started, no in-flight
\* entry is created, and no load of the URL is still reading or fetching (so the
\* URL is not fetched successfully a second time).
C18_CachedUrlNeverReloaded ==
  [][\A u \in Urls :
       sourceMapCache[u] /\ ~CleanupResolved' =>
         /\ sourceMapCache'[u]
         /\ InFlight(u)' \subseteq InFlight(u)
         /\ pendingSourceMaps'[u] \in {0, pendingSourceMaps[u]}
         /\ \A l \in InFlight(u) : loads[l].stage = "cacheWrite"
         /\ (~isProcessing /\ isProcessing' =>
               \A j \in 1..Min(batchSize, Len(logQueue)) :
                 logQueue[j].stack = u =>
                   /\ tasks'[Len(tasks) + j].st = "ready"
                   /\ tasks'[Len(tasks) + j].res = "cached")]_vars

C18_Witness ==
  /\ ~CleanupResolved
  /\ \E i \in DOMAIN tasks : tasks[i].res = "cached"

\* C19: a wrapper call that invokes the original directly leaves no entry for
\* that call in the queue.
C19_NeverQueuedAndEmitted ==
  [][calls' = calls + 1 /\ emits'[calls'] >= 1 =>
       \A i \in DOMAIN logQueue' : logQueue'[i].id # calls']_vars

\* C20: after a cleanup() has resolved, the in-memory source-map cache and the
\* in-flight registry are empty and stay empty (no consumer is stored that no
\* cleanup destroyed).
C20_CachesEmptyAfterCleanup ==
  CleanupResolved =>
    \A u \in Urls : ~sourceMapCache[u] /\ pendingSourceMaps[u] = 0

====
